---- MODULE Spec2Model ----
(***************************************************************************)
(* Model of ddl_generator.py: convert_data_type (the type mapper),         *)
(* generate_ddl (the DDL assembler with its header) and the batch driver   *)
(* of the __main__ block.                                                  *)
(*                                                                         *)
(* Text is modelled as sequences of one-character strings wherever the     *)
(* code inspects or converts it (raw type names, length / precision /      *)
(* scale fields); table names are only compared and tested for emptiness   *)
(* and are plain strings.  The DDL text is a sequence of lines, each line  *)
(* a record naming the f-string that produced it and the values that were  *)
(* interpolated.  The column name, the NOT NULL suffix and the comment     *)
(* padding of a column line touch no counter and no block line and are     *)
(* not carried; the `Generated at` timestamp of the header is not carried. *)
(***************************************************************************)
EXTENDS Integers, Sequences, FiniteSets, TLC

VARIABLES
    type_mapping,             \* the dialect table selected from args.db
    count_unknown_data_type,  \* the module-level global counter
    pc,                       \* "idle", "reading", "returned", "failed"
    csv_file,                 \* the rows of the file being converted
    reader,                   \* number of rows the DictReader has yielded
    ddl,                      \* generate_ddl local: the body text, as lines
    count_table,              \* generate_ddl local
    count_total_column,       \* generate_ddl local
    data_type_counts,         \* generate_ddl local: Counter, insertion ordered
    bq_ods_counts,            \* generate_ddl local: Counter, insertion ordered
    current_table,            \* generate_ddl local
    count_table_column,       \* generate_ddl local
    ddl_output,               \* what the last completed call returned
    prev_output,              \* what the call before it returned (library caller)
    calls,                    \* number of calls made by the library caller
    earlier,                  \* history: how the driver's previous file ended
    cv_args,                  \* arguments of a direct convert_data_type call
    cv_ret                    \* its outcome

vars == <<type_mapping, count_unknown_data_type, pc, csv_file, reader, ddl,
          count_table, count_total_column, data_type_counts, bq_ods_counts,
          current_table, count_table_column, ddl_output, prev_output, calls,
          earlier, cv_args, cv_ret>>

asmVars == <<csv_file, reader, ddl, count_table, count_total_column,
             data_type_counts, bq_ods_counts, current_table,
             count_table_column, ddl_output, prev_output, calls, earlier>>

cvVars == <<cv_args, cv_ret>>

-----------------------------------------------------------------------------
(* Bounds *)

MaxRows == 3        \* rows per input file

MaxCalls == 2       \* generate_ddl calls made by a library caller

MaxPrior == 1       \* unknown types counted before a direct convert call

-----------------------------------------------------------------------------
(* The three dialect tables *)

None == "None"

ORACLE_TYPE_MAPPING ==
    ("BLOB" :> "BYTES") @@ ("CHAR" :> "STRING") @@ ("CLOB" :> "STRING") @@
    ("DATE" :> "DATE") @@ ("NUMBER" :> "NUMERIC") @@ ("RAW" :> "BYTES") @@
    ("TIMESTAMP" :> "TIMESTAMP") @@ ("VARCHAR2" :> "STRING") @@
    ("FLOAT" :> "FLOAT64")

POSTGRESQL_TYPE_MAPPING ==
    ("CHARACTER VARYING" :> "STRING") @@ ("CHARACTER" :> "STRING") @@
    ("TEXT" :> "STRING") @@ ("BIGINT" :> "NUMERIC") @@
    ("NUMERIC" :> "NUMERIC") @@ ("INTEGER" :> "NUMERIC") @@
    ("DATE" :> "DATE") @@ ("TIMESTAMP WITHOUT TIME ZONE" :> "TIMESTAMP") @@
    ("TIMESTAMP WITH TIME ZONE" :> "TIMESTAMP") @@ ("BOOLEAN" :> "BOOL")

MSSQL_TYPE_MAPPING ==
    ("INT" :> "INT64") @@ ("NVARCHAR" :> "STRING") @@
    ("DATETIME" :> "DATETIME") @@ ("BIT" :> "BOOL") @@
    ("UNIQUEIDENTIFIER" :> "STRING") @@ ("BIGINT" :> "INT64") @@
    ("SMALLINT" :> "INT64") @@ ("TINYINT" :> "INT64") @@
    ("NUMERIC" :> "NUMERIC") @@ ("DECIMAL" :> "NUMERIC") @@
    ("CHAR" :> "STRING") @@ ("IMAGE" :> "BYTES") @@ ("VARCHAR" :> "STRING") @@
    ("DATE" :> "DATE") @@ ("DATETIME2" :> "TIMESTAMP") @@
    ("FLOAT" :> "FLOAT64") @@ ("MONEY" :> "NUMERIC") @@
    ("NTEXT" :> "STRING") @@ ("SMALLDATETIME" :> "DATETIME")

\* args.db is one of oracle, postgresql, mssql (argparse choices)
TypeMappings == {ORACLE_TYPE_MAPPING, POSTGRESQL_TYPE_MAPPING, MSSQL_TYPE_MAPPING}

-----------------------------------------------------------------------------
(* Text helpers: str.upper, str.strip, re.sub, int *)

UpperMap ==
    ("a" :> "A") @@ ("b" :> "B") @@ ("c" :> "C") @@ ("d" :> "D") @@
    ("e" :> "E") @@ ("f" :> "F") @@ ("g" :> "G") @@ ("h" :> "H") @@
    ("i" :> "I") @@ ("j" :> "J") @@ ("k" :> "K") @@ ("l" :> "L") @@
    ("m" :> "M") @@ ("n" :> "N") @@ ("o" :> "O") @@ ("p" :> "P") @@
    ("q" :> "Q") @@ ("r" :> "R") @@ ("s" :> "S") @@ ("t" :> "T") @@
    ("u" :> "U") @@ ("v" :> "V") @@ ("w" :> "W") @@ ("x" :> "X") @@
    ("y" :> "Y") @@ ("z" :> "Z")

\* str.upper()
Upper(s) == [i \in 1..Len(s) |-> IF s[i] \in DOMAIN UpperMap THEN UpperMap[s[i]] ELSE s[i]]

RECURSIVE LStrip(_)
LStrip(s) == IF s # <<>> /\ Head(s) = " " THEN LStrip(Tail(s)) ELSE s

RECURSIVE RStrip(_)
RStrip(s) ==
    IF s # <<>> /\ s[Len(s)] = " " THEN RStrip(SubSeq(s, 1, Len(s) - 1)) ELSE s

\* str.strip()
Strip(s) == RStrip(LStrip(s))

\* re.sub(r"\(.*?\)", "", s): every "(" up to the first ")" after it is removed;
\* a "(" that no ")" follows is kept.
RECURSIVE StripParens(_)
StripParens(s) ==
    IF s = <<>> THEN <<>>
    ELSE IF Head(s) = "(" /\ \E i \in 2..Len(s) : s[i] = ")"
         THEN LET j == CHOOSE i \in 2..Len(s) :
                          s[i] = ")" /\ \A k \in 2..(i - 1) : s[k] # ")"
              IN  StripParens(SubSeq(s, j + 1, Len(s)))
         ELSE <<Head(s)>> \o StripParens(Tail(s))

\* the characters of a text joined into one string (a dictionary key)
RECURSIVE Join(_)
Join(s) == IF s = <<>> THEN "" ELSE Head(s) \o Join(Tail(s))

\* data_type = re.sub(r"\(.*?\)", "", data_type).strip().upper()
NormalizeType(data_type) == Join(Upper(Strip(StripParens(data_type))))

DigitVal ==
    ("0" :> 0) @@ ("1" :> 1) @@ ("2" :> 2) @@ ("3" :> 3) @@ ("4" :> 4) @@
    ("5" :> 5) @@ ("6" :> 6) @@ ("7" :> 7) @@ ("8" :> 8) @@ ("9" :> 9)

IsDigits(s) == s # <<>> /\ \A i \in 1..Len(s) : s[i] \in DOMAIN DigitVal

RECURSIVE DigitsValue(_)
DigitsValue(s) ==
    IF s = <<>> THEN 0
    ELSE 10 * DigitsValue(SubSeq(s, 1, Len(s) - 1)) + DigitVal[s[Len(s)]]

\* int(text): surrounding blanks are dropped, one leading sign is accepted,
\* the rest must be decimal digits; anything else raises ValueError.
\* (Digit-group underscores, which int() also accepts, occur in no input here.)
IntParse(text) ==
    LET t == Strip(text)
        signed == t # <<>> /\ Head(t) \in {"+", "-"}
        body == IF signed THEN Tail(t) ELSE t
    IN  IF IsDigits(body)
        THEN [ok |-> TRUE,
              val |-> IF signed /\ Head(t) = "-" THEN 0 - DigitsValue(body)
                      ELSE DigitsValue(body)]
        ELSE [ok |-> FALSE, val |-> 0]

-----------------------------------------------------------------------------
(* convert_data_type *)

\* A BigQuery type as the f-strings write it: the base name and the texts
\* interpolated between the parentheses, unparsed.
BqType(base, params) == [base |-> base, params |-> params]

Raised == [raised |-> TRUE, bq_type |-> None]

Returned(t) == [raised |-> FALSE, bq_type |-> t]

\* ResolveNumeric with the second tier written `and` instead of `or`
ResolveNumericAnd(data_precision, data_scale) ==
    LET p == IntParse(data_precision)
        s == IntParse(data_scale)
    IN  IF data_precision # <<>> /\ data_scale # <<>>
        THEN IF ~p.ok THEN Raised
             ELSE IF p.val <= 38 /\ (~s.ok \/ s.val <= 9)
                  THEN IF ~s.ok THEN Raised
                       ELSE Returned(BqType("NUMERIC", <<data_precision, data_scale>>))
                  ELSE IF p.val <= 76
                       THEN IF ~s.ok THEN Raised
                            ELSE IF s.val <= 38
                                 THEN Returned(BqType("BIGNUMERIC", <<data_precision, data_scale>>))
                                 ELSE Returned(BqType("FLOAT64", <<>>))
                       ELSE Returned(BqType("FLOAT64", <<>>))
        ELSE IF data_precision # <<>>
             THEN Returned(BqType("NUMERIC", <<data_precision>>))
             ELSE Returned(BqType("NUMERIC", <<>>))

\* The NUMERIC branch.  `and` / `or` short-circuit, so int(data_scale) is
\* evaluated only when the comparison on int(data_precision) does not decide.
ResolveNumeric(data_precision, data_scale) ==
    LET p == IntParse(data_precision)
        s == IntParse(data_scale)
    IN  IF data_precision # <<>> /\ data_scale # <<>>
        THEN IF ~p.ok THEN Raised
             ELSE IF p.val <= 38
                  THEN IF ~s.ok THEN Raised
                       ELSE IF s.val <= 9
                            THEN Returned(BqType("NUMERIC", <<data_precision, data_scale>>))
                            ELSE Returned(BqType("BIGNUMERIC", <<data_precision, data_scale>>))
                  ELSE IF p.val <= 76
                       THEN Returned(BqType("BIGNUMERIC", <<data_precision, data_scale>>))
                       ELSE IF ~s.ok THEN Raised
                            ELSE IF s.val <= 38
                                 THEN Returned(BqType("BIGNUMERIC", <<data_precision, data_scale>>))
                                 ELSE Returned(BqType("FLOAT64", <<>>))
        ELSE IF data_precision # <<>>
             THEN Returned(BqType("NUMERIC", <<data_precision>>))
             ELSE Returned(BqType("NUMERIC", <<>>))

\* type_mapping.get(data_type)
Lookup(mapping, key) == IF key \in DOMAIN mapping THEN mapping[key] ELSE None

\* convert_data_type without the `count_unknown_data_type += 1`
ConvertDataTypeUncounted(data_type, data_length, data_precision, data_scale, mapping, count) ==
    LET bq_type == Lookup(mapping, NormalizeType(data_type))
    IN  IF bq_type = "NUMERIC"
        THEN [out |-> ResolveNumeric(data_precision, data_scale), count |-> count]
        ELSE IF bq_type = "STRING" /\ data_length # <<>>
        THEN [out |-> Returned(BqType("STRING", <<data_length>>)), count |-> count]
        ELSE IF bq_type = None
        THEN [out |-> Returned(BqType("STRING", <<>>)), count |-> count]
        ELSE [out |-> Returned(BqType(bq_type, <<>>)), count |-> count]

\* convert_data_type: the outcome (raised or the returned type) and the value
\* the global counter has afterwards, given its value `count` before.
ConvertDataType(data_type, data_length, data_precision, data_scale, mapping, count) ==
    LET bq_type == Lookup(mapping, NormalizeType(data_type))
    IN  IF bq_type = "NUMERIC"
        THEN [out |-> ResolveNumeric(data_precision, data_scale), count |-> count]
        ELSE IF bq_type = "STRING" /\ data_length # <<>>
        THEN [out |-> Returned(BqType("STRING", <<data_length>>)), count |-> count]
        ELSE IF bq_type = None
        THEN [out |-> Returned(BqType("STRING", <<>>)), count |-> count + 1]
        ELSE [out |-> Returned(BqType(bq_type, <<>>)), count |-> count]

-----------------------------------------------------------------------------
(* Inputs of direct convert_data_type calls *)

RawTypes ==
    { <<"N","U","M","B","E","R">>,
      <<"n","u","m","b","e","r","(","1","0",",","2",")">>,
      <<"N","U","M","E","R","I","C">>,
      <<"D","E","C","I","M","A","L">>,
      <<"V","A","R","C","H","A","R","2","(","5","0",")">>,
      <<" ","d","a","t","e"," ">>,
      <<"T","I","M","E","S","T","A","M","P","(","6",")">>,
      <<"C","H","A","R","(">>,
      <<"X","M","L","T","Y","P","E">> }

Lengths == { <<>>, <<"5","0">>, <<"a","b","c">>, <<"-","1">> }

Precisions ==
    { <<>>, <<"0">>, <<"1","0">>, <<"3","8">>, <<"0","3","8">>, <<"3","9">>,
      <<"7","6">>, <<"7","7">>, <<"8","0">>, <<"a","b","c">>, <<"-","5">> }

Scales ==
    { <<>>, <<"0">>, <<"2">>, <<"9">>, <<"1","0">>, <<"3","8">>, <<"3","9">>,
      <<"4","0">>, <<"a","b","c">>, <<"-","1">> }

NoCall == [data_type |-> <<>>, data_length |-> <<>>, data_precision |-> <<>>,
           data_scale |-> <<>>]

NoRet == [state |-> "none", out |-> Raised, before |-> 0]

-----------------------------------------------------------------------------
(* Direct calls of convert_data_type: one call on any arguments, with the   *)
(* global counter at any value earlier calls may have left.                 *)

NoFrame ==
    /\ pc = "idle"
    /\ reader = 0
    /\ ddl = <<>>
    /\ count_table = 0
    /\ count_total_column = 0
    /\ data_type_counts = <<>>
    /\ bq_ods_counts = <<>>
    /\ current_table = ""
    /\ count_table_column = 0
    /\ ddl_output = None
    /\ prev_output = None
    /\ calls = 0
    /\ earlier = "none"

AsmIdle == csv_file = <<>> /\ NoFrame

InitConvert ==
    /\ type_mapping \in TypeMappings
    /\ count_unknown_data_type \in 0..MaxPrior
    /\ cv_args \in [data_type : RawTypes, data_length : Lengths,
                    data_precision : Precisions, data_scale : Scales]
    /\ cv_ret = NoRet
    /\ AsmIdle

CvResult ==
    ConvertDataType(cv_args.data_type, cv_args.data_length, cv_args.data_precision,
                    cv_args.data_scale, type_mapping, count_unknown_data_type)

ConvertReturns ==
    /\ cv_ret.state = "none"
    /\ ~CvResult.out.raised
    /\ cv_ret' = [state |-> "returned", out |-> CvResult.out,
                  before |-> count_unknown_data_type]
    /\ count_unknown_data_type' = CvResult.count
    /\ UNCHANGED <<type_mapping, pc, cv_args, asmVars>>

ConvertRaises ==
    /\ cv_ret.state = "none"
    /\ CvResult.out.raised
    /\ cv_ret' = [state |-> "raised", out |-> CvResult.out,
                  before |-> count_unknown_data_type]
    /\ count_unknown_data_type' = CvResult.count
    /\ UNCHANGED <<type_mapping, pc, cv_args, asmVars>>

NextConvert ==
    \/ ConvertReturns
    \/ ConvertRaises

SpecConvert == InitConvert /\ [][NextConvert]_vars

-----------------------------------------------------------------------------
(* generate_ddl *)

\* collections.Counter: keys in order of first insertion
CounterGet(c, k) ==
    IF \E i \in 1..Len(c) : c[i].key = k
    THEN c[CHOOSE i \in 1..Len(c) : c[i].key = k].n
    ELSE 0

\* c[k] += 1
CounterInc(c, k) ==
    IF \E i \in 1..Len(c) : c[i].key = k
    THEN [i \in 1..Len(c) |-> IF c[i].key = k THEN [c[i] EXCEPT !.n = @ + 1] ELSE c[i]]
    ELSE Append(c, [key |-> k, n |-> 1])

\* f"CREATE OR REPLACE TABLE `{table_name}` (\n"
CreateLine(table_name) == [line |-> "create", table |-> table_name, n |-> 0, bq_type |-> None]

\* f"); -- Column: {count_table_column}"
CloseLine(n) == [line |-> "close", table |-> "", n |-> n, bq_type |-> None]

\* f"  `{column_name}` {data_type}" ... ",-- {DATA_TYPE} {DATA_LENGTH}-..."
ColumnLine(row, t) == [line |-> "column", table |-> "", n |-> 0, bq_type |-> t]

\* One iteration of `for row in reader`, up to and including the call of
\* convert_data_type: the block bookkeeping of a table-name change.
\* `if current_table:` is false for the initial "" and for an empty BQ_ODS.
OpenBlock(row) ==
    LET table_name == row.table_name
        changed == table_name # current_table
        closes == changed /\ current_table # ""
        ddl1 == IF closes THEN Append(ddl, CloseLine(count_table_column)) ELSE ddl
    IN  [ddl |-> IF changed THEN Append(ddl1, CreateLine(table_name)) ELSE ddl1,
         count_table_column |-> IF closes THEN 0 ELSE count_table_column,
         bq_ods_counts |-> IF changed THEN CounterInc(bq_ods_counts, table_name)
                           ELSE bq_ods_counts,
         current_table |-> IF changed THEN table_name ELSE current_table,
         count_table |-> IF changed THEN count_table + 1 ELSE count_table]

RowConversion(row) ==
    ConvertDataType(row.data_type, row.data_length, row.data_precision,
                    row.data_scale, type_mapping, count_unknown_data_type)

\* The locals of a generate_ddl frame as the function sets them on entry.
EnterGenerateDdl ==
    /\ reader' = 0
    /\ ddl' = <<>>
    /\ count_table' = 0
    /\ count_total_column' = 0
    /\ data_type_counts' = <<>>
    /\ bq_ods_counts' = <<>>
    /\ current_table' = ""
    /\ count_table_column' = 0

\* The frame is gone once the call returns or raises.
LeaveGenerateDdl ==
    /\ ddl' = <<>>
    /\ count_table' = 0
    /\ count_total_column' = 0
    /\ data_type_counts' = <<>>
    /\ bq_ods_counts' = <<>>
    /\ current_table' = ""
    /\ count_table_column' = 0

\* A loop iteration that completes.
ReadRow ==
    /\ pc = "reading"
    /\ reader < Len(csv_file)
    /\ LET row == csv_file[reader + 1]
           blk == OpenBlock(row)
           conv == RowConversion(row)
       IN  /\ ~conv.out.raised
           /\ count_unknown_data_type' = conv.count
           /\ data_type_counts' = CounterInc(data_type_counts, row.data_type)
           /\ ddl' = Append(blk.ddl, ColumnLine(row, conv.out.bq_type))
           /\ bq_ods_counts' = blk.bq_ods_counts
           /\ current_table' = blk.current_table
           /\ count_table' = blk.count_table
           /\ count_total_column' = count_total_column + 1
           /\ count_table_column' = blk.count_table_column + 1
    /\ reader' = reader + 1
    /\ UNCHANGED <<type_mapping, pc, csv_file, ddl_output, prev_output, calls,
                   earlier, cvVars>>

\* A loop iteration in which convert_data_type raises: the exception leaves
\* generate_ddl (the driver catches and logs it).
RowRaises ==
    /\ pc = "reading"
    /\ reader < Len(csv_file)
    /\ RowConversion(csv_file[reader + 1]).out.raised
    /\ count_unknown_data_type' = RowConversion(csv_file[reader + 1]).count
    /\ pc' = "failed"
    /\ reader' = reader + 1
    /\ LeaveGenerateDdl
    /\ UNCHANGED <<type_mapping, csv_file, ddl_output, prev_output, calls,
                   earlier, cvVars>>

\* duplicated_tables: the names counted more than once, " None" when empty
DuplicatedTables(counts) ==
    LET dup == SelectSeq(counts, LAMBDA e : e.n > 1)
    IN  [text |-> IF dup = <<>> THEN "None" ELSE "list", items |-> dup]

\* ddl_info, the header
DdlInfo ==
    [total_table |-> count_table,
     total_column |-> count_total_column,
     total_unknown |-> count_unknown_data_type,
     duplicated |-> DuplicatedTables(bq_ods_counts),
     data_type_info |-> data_type_counts]

\* The reader is exhausted: the unconditional closing line, the header, return.
Return ==
    /\ pc = "reading"
    /\ reader = Len(csv_file)
    /\ ddl_output' = [ddl_info |-> DdlInfo,
                      ddl |-> Append(ddl, CloseLine(count_table_column))]
    /\ pc' = "returned"
    /\ LeaveGenerateDdl
    /\ UNCHANGED <<type_mapping, count_unknown_data_type, csv_file, reader,
                   prev_output, calls, earlier, cvVars>>

-----------------------------------------------------------------------------
(* Input files *)

TableNames == {"", "T1", "T2"}

Row(t, ty, l, p, s) ==
    [table_name |-> t, data_type |-> ty, data_length |-> l,
     data_precision |-> p, data_scale |-> s]

\* DATE is in every dialect table and XMLTYPE in none; NUMBER with an
\* unparsable precision raises under Oracle, NUMERIC under the other two.
RowTypes ==
    { Row("", <<"D","A","T","E">>, <<>>, <<>>, <<>>),
      Row("", <<"X","M","L","T","Y","P","E">>, <<>>, <<>>, <<>>),
      Row("", <<"n","u","m","b","e","r","(","1","0",")">>, <<>>, <<"a","b","c">>, <<"2">>),
      Row("", <<"N","U","M","E","R","I","C">>, <<>>, <<"1","x">>, <<"0">>) }

Rows == { [r EXCEPT !.table_name = t] : r \in RowTypes, t \in TableNames }

Files == UNION { [1..n -> Rows] : n \in 0..MaxRows }

-----------------------------------------------------------------------------
(* The batch driver (__main__): every .csv file found is converted in turn. *)

Init ==
    /\ type_mapping \in TypeMappings
    /\ count_unknown_data_type = 0
    /\ AsmIdle
    /\ cv_args = NoCall
    /\ cv_ret = NoRet

\* StartFile without the `count_unknown_data_type = 0` of the try block
StartFileNoReset ==
    /\ pc = "idle"
    /\ csv_file' \in Files
    /\ pc' = "reading"
    /\ EnterGenerateDdl
    /\ ddl_output' = None
    /\ UNCHANGED <<type_mapping, count_unknown_data_type, prev_output, calls,
                   earlier, cvVars>>

\* A .csv file of os.walk: the counter is reset, then generate_ddl is entered.
StartFile ==
    /\ pc = "idle"
    /\ csv_file' \in Files
    /\ count_unknown_data_type' = 0
    /\ pc' = "reading"
    /\ EnterGenerateDdl
    /\ ddl_output' = None
    /\ UNCHANGED <<type_mapping, prev_output, calls, earlier, cvVars>>

\* The try block is left, with the document written or the error logged, and
\* the loop goes on to the next filename.  The global counter keeps its value.
NextFile ==
    /\ pc \in {"returned", "failed"}
    /\ pc' = "idle"
    /\ csv_file' = <<>>
    /\ reader' = 0
    /\ ddl_output' = None
    /\ earlier' = IF pc = "failed"
                  THEN (IF count_unknown_data_type > 0 THEN "failed, unknowns counted"
                        ELSE "failed")
                  ELSE (IF count_unknown_data_type > 0 THEN "returned, unknowns counted"
                        ELSE "returned")
    /\ UNCHANGED <<type_mapping, count_unknown_data_type, ddl, count_table,
                   count_total_column, data_type_counts, bq_ods_counts,
                   current_table, count_table_column, prev_output, calls, cvVars>>

Next ==
    \/ StartFile
    \/ ReadRow
    \/ RowRaises
    \/ Return
    \/ NextFile

Spec == Init /\ [][Next]_vars

-----------------------------------------------------------------------------
(* A caller that imports the module and calls generate_ddl on one file      *)
(* several times.                                                           *)

InitLib ==
    /\ type_mapping \in TypeMappings
    /\ count_unknown_data_type = 0
    /\ csv_file \in Files
    /\ NoFrame
    /\ cv_args = NoCall
    /\ cv_ret = NoRet

\* generate_ddl(csv_file, type_mapping), called again on the same file; the
\* caller keeps the document the call before returned.
CallGenerateDdl ==
    /\ pc \in {"idle", "returned", "failed"}
    /\ calls < MaxCalls
    /\ calls' = calls + 1
    /\ prev_output' = ddl_output
    /\ pc' = "reading"
    /\ EnterGenerateDdl
    /\ UNCHANGED <<type_mapping, count_unknown_data_type, csv_file, ddl_output,
                   earlier, cvVars>>

NextLib ==
    \/ CallGenerateDdl
    \/ ReadRow
    \/ RowRaises
    \/ Return

SpecLib == InitLib /\ [][NextLib]_vars

-----------------------------------------------------------------------------
(* What the claims speak about *)

\* indices of the lines of kind k in a body text
LinesOf(text, k) == { i \in 1..Len(text) : text[i].line = k }

\* the k-th column line is written for the k-th row
RowOfLine(text, i) == Cardinality({ j \in 1..i : text[j].line = "column" })

\* the opening line of the block a line belongs to, 0 when none precedes it
OpeningOf(text, i) ==
    IF \E j \in 1..i : text[j].line = "create"
    THEN CHOOSE j \in 1..i :
             text[j].line = "create" /\ \A k \in (j + 1)..i : text[k].line # "create"
    ELSE 0

\* first rows of the contiguous runs of one table name in a file
RunStarts(file) ==
    { i \in 1..Len(file) : i = 1 \/ file[i].table_name # file[i - 1].table_name }

RunsOf(file, t) == Cardinality({ i \in RunStarts(file) : file[i].table_name = t })

IsUnknown(row) == NormalizeType(row.data_type) \notin DOMAIN type_mapping

UnknownRows(file) == { i \in 1..Len(file) : IsUnknown(file[i]) }

\* a field that is present and is not a non-negative integer
Malformed(field) == field # <<>> /\ ~(IntParse(field).ok /\ IntParse(field).val >= 0)

\* a parameter text that denotes a number above a limit
Exceeds(field, limit) == IntParse(field).ok /\ IntParse(field).val > limit

-----------------------------------------------------------------------------
(* Claims *)

\* C1: in every document generate_ddl returns there are as many
\* CREATE OR REPLACE TABLE lines as "); -- Column: N" lines, and every closing
\* line has an opening of its own before it.
C1_BlockIntegrity ==
    pc = "returned" =>
        LET text == ddl_output.ddl
        IN  /\ Cardinality(LinesOf(text, "create")) = Cardinality(LinesOf(text, "close"))
            /\ \A i \in LinesOf(text, "close") :
                   Cardinality({ j \in 1..i : text[j].line = "close" })
                       <= Cardinality({ j \in 1..i : text[j].line = "create" })

\* C2: the N of every closing line is the number of records read since the
\* block it closes was opened, all of them carrying that block's table name.
C2_BlockColumnCount ==
    pc = "returned" =>
        LET text == ddl_output.ddl
        IN  \A i \in LinesOf(text, "close") :
                LET o == OpeningOf(text, i)
                    cols == { j \in (o + 1)..i : text[j].line = "column" }
                IN  /\ text[i].n = Cardinality(cols)
                    /\ o > 0 => \A j \in cols :
                           csv_file[RowOfLine(text, j)].table_name = text[o].table

\* C3: an empty file is converted without an exception into a header of zero
\* tables and zero columns and an empty body.
C3_EmptyInput ==
    (csv_file = <<>> /\ pc \in {"returned", "failed"}) =>
        /\ pc = "returned"
        /\ ddl_output.ddl_info.total_table = 0
        /\ ddl_output.ddl_info.total_column = 0
        /\ ddl_output.ddl = <<>>

\* C4: a NUMERIC base type with precision and scale both written as
\* non-negative integers becomes NUMERIC(p, s) when p <= 38 and s <= 9,
\* otherwise BIGNUMERIC(p, s) when p <= 76 or s <= 38, otherwise FLOAT64.
C4_NumericTiers ==
    LET p == cv_args.data_precision
        s == cv_args.data_scale
    IN  (/\ cv_ret.state # "none"
         /\ Lookup(type_mapping, NormalizeType(cv_args.data_type)) = "NUMERIC"
         /\ IsDigits(p) /\ IsDigits(s)) =>
            /\ cv_ret.state = "returned"
            /\ cv_ret.out.bq_type =
                   IF DigitsValue(p) <= 38 /\ DigitsValue(s) <= 9
                   THEN [base |-> "NUMERIC", params |-> <<p, s>>]
                   ELSE IF DigitsValue(p) <= 76 \/ DigitsValue(s) <= 38
                   THEN [base |-> "BIGNUMERIC", params |-> <<p, s>>]
                   ELSE [base |-> "FLOAT64", params |-> <<>>]

\* precision 80, scale 40 on a NUMERIC base type gave FLOAT64
C4_Witness ==
    /\ cv_ret.state = "returned"
    /\ cv_args.data_precision = <<"8","0">>
    /\ cv_args.data_scale = <<"4","0">>
    /\ Lookup(type_mapping, NormalizeType(cv_args.data_type)) = "NUMERIC"
    /\ cv_ret.out.bq_type.base = "FLOAT64"

\* C5: convert_data_type never returns NUMERIC with a precision above 38 or a
\* scale above 9, nor BIGNUMERIC with a precision above 76 or a scale above 38.
C5_CapacitySafety ==
    cv_ret.state = "returned" =>
        LET t == cv_ret.out.bq_type
        IN  /\ (t.base = "NUMERIC" /\ Len(t.params) >= 1) => ~Exceeds(t.params[1], 38)
            /\ (t.base = "NUMERIC" /\ Len(t.params) = 2) => ~Exceeds(t.params[2], 9)
            /\ (t.base = "BIGNUMERIC") =>
                   ~Exceeds(t.params[1], 76) /\ ~Exceeds(t.params[2], 38)

\* C6: a row whose stripped, uppercased raw type is absent from the dialect
\* table is converted to a bare STRING column, advances the unknown-type
\* counter by exactly one, raises nothing (the loop goes on) and is counted
\* under its raw type, which the returned header lists; a row whose type is
\* present leaves the counter as it was.
C6_UnknownType ==
    /\ [][ (pc = "reading" /\ reader < Len(csv_file)) =>
             LET row == csv_file[reader + 1]
             IN  IF IsUnknown(row)
                 THEN /\ pc' = "reading"
                      /\ reader' = reader + 1
                      /\ count_unknown_data_type' = count_unknown_data_type + 1
                      /\ ddl'[Len(ddl')] = ColumnLine(row, [base |-> "STRING", params |-> <<>>])
                      /\ CounterGet(data_type_counts', row.data_type)
                             = CounterGet(data_type_counts, row.data_type) + 1
                 ELSE count_unknown_data_type' = count_unknown_data_type ]_vars
    /\ [](pc = "returned" =>
             \A i \in UnknownRows(csv_file) :
                 CounterGet(ddl_output.ddl_info.data_type_info, csv_file[i].data_type) >= 1)

\* a row of unknown type was just read; a known one had been read before it
C6_Witness ==
    /\ pc = "reading"
    /\ reader = 2
    /\ ~IsUnknown(csv_file[1])
    /\ IsUnknown(csv_file[2])
    /\ count_unknown_data_type = 1
    /\ ddl[Len(ddl)].bq_type = [base |-> "STRING", params |-> <<>>]
    /\ CounterGet(data_type_counts, csv_file[2].data_type) = 1

\* C7: a second call of generate_ddl on the same file returns the document
\* the first call returned (header statistics and body).
C7_Idempotent ==
    (calls = 2 /\ pc = "returned") => ddl_output = prev_output

\* C8: the header of every file the driver converts reports the number of
\* rows of that file whose raw type is absent from the dialect table.
C8_UnknownPerFile ==
    pc = "returned" =>
        ddl_output.ddl_info.total_unknown = Cardinality(UnknownRows(csv_file))

\* a file with one unknown type was converted after a file that failed
\* part-way with unknown types already counted
C8_Witness ==
    /\ pc = "returned"
    /\ earlier = "failed, unknowns counted"
    /\ Cardinality(UnknownRows(csv_file)) = 1
    /\ Len(csv_file) = 2

\* C9: a call in which a present length, precision or scale is not a
\* non-negative integer raises.
C9_MalformedSurfaces ==
    (/\ cv_ret.state # "none"
     /\ \/ Malformed(cv_args.data_length)
        \/ Malformed(cv_args.data_precision)
        \/ Malformed(cv_args.data_scale)) => cv_ret.state = "raised"

\* C10: the duplicate listing holds exactly the table names that form two or
\* more contiguous runs of the file, each with its number of runs, and reads
\* None when there is no such name.
C10_DuplicateListing ==
    pc = "returned" =>
        LET listing == ddl_output.ddl_info.duplicated
            names == { csv_file[i].table_name : i \in 1..Len(csv_file) }
            repeated == { t \in names : RunsOf(csv_file, t) >= 2 }
        IN  /\ { listing.items[i] : i \in 1..Len(listing.items) }
                   = { [key |-> t, n |-> RunsOf(csv_file, t)] : t \in repeated }
            /\ Len(listing.items) = Cardinality(repeated)
            /\ (listing.text = "None") <=> (repeated = {})

\* number of rows of the contiguous run that ends at row i of a file
RECURSIVE RunLengthTo(_, _)
RunLengthTo(file, i) ==
    IF i \in RunStarts(file) THEN 1 ELSE 1 + RunLengthTo(file, i - 1)

\* C11: an empty table name is a table name like any other.  After a row
\* that starts a run of the empty name, the line before its column line is
\* the opening of a block for "", and the table counter and the occurrence
\* count of "" stand at the number of runs (of all names, of "") begun so
\* far; after a row that ends a run of the empty name, the block of "" is
\* closed with the length of that run just before the next block is opened.
C11_EmptyNameIsLiteral ==
    (pc = "reading" /\ reader >= 1) =>
        LET read == SubSeq(csv_file, 1, reader)
            row == csv_file[reader]
            n == Len(ddl)
        IN  /\ (row.table_name = "" /\ reader \in RunStarts(read)) =>
                   /\ n >= 2
                   /\ ddl[n - 1] = CreateLine("")
                   /\ count_table = Cardinality(RunStarts(read))
                   /\ CounterGet(bq_ods_counts, "") = RunsOf(read, "")
            /\ (reader >= 2 /\ csv_file[reader - 1].table_name = ""
                            /\ row.table_name # "") =>
                   /\ n >= 3
                   /\ ddl[n - 1] = CreateLine(row.table_name)
                   /\ ddl[n - 2] = CloseLine(RunLengthTo(read, reader - 1))

====
